---- MODULE Spec2Model ----
(***************************************************************************)
(* Model of transmitter/features.h: extract_features(float* out), the      *)
(* placeholder feature stage of the LoRa transmitter.  The function runs   *)
(* a ten-iteration loop; each iteration draws random(1, 1000), converts    *)
(* the draw to float, adds 1e-6f in single precision, takes logf of the    *)
(* sum and stores it at out[i].                                            *)
(*                                                                         *)
(* Single-precision values are modelled by their IEEE-754 fields (sign,    *)
(* biased exponent, 23-bit fraction), and the float addition is carried    *)
(* out on them with guard, round and sticky bits and round-to-nearest-     *)
(* even, so that the sum energy + 1e-6f is the one the hardware yields.    *)
(* logf is a library function: its result is kept as the term logf(x)      *)
(* over the exact float argument x, and classified (finite, infinite, NaN) *)
(* from x as the C library does.                                           *)
(***************************************************************************)
EXTENDS Integers, Sequences, FiniteSets, TLC

\* ------------------------------------------------------------------------
\* Program constants
\* ------------------------------------------------------------------------

\* for (int i = 0; i < 10; i++): the loop's initial value and its bound
LoopInit == 0
NFeatures == 10

\* random(1, 1000): the arguments of the draw
RandMin == 1
RandMax == 1000

\* 1e-6f = 0x358637BD: biased exponent 107, fraction 407485
EpsExp == 107
EpsMan == 407485

\* ------------------------------------------------------------------------
\* Bounds of the model
\* ------------------------------------------------------------------------

\* Calls one caller makes in a run.
MaxCalls == 2

\* Float slots of the memory region that starts at the pointer out: the
\* caller's buffer occupies the first cap slots, the rest belongs to
\* whatever the caller keeps behind the buffer.
MemSize == 12

\* ------------------------------------------------------------------------
\* IEEE-754 single precision
\* ------------------------------------------------------------------------

RECURSIVE Pow2(_)
Pow2(n) == IF n <= 0 THEN 1 ELSE 2 * Pow2(n - 1)

\* Number of bits of n >= 0 (0 for n = 0).
RECURSIVE BitLen(_)
BitLen(n) == IF n <= 0 THEN 0 ELSE 1 + BitLen(n \div 2)

Abs(n) == IF n < 0 THEN -n ELSE n

MkFloat(s, e, m) == [sign |-> s, exp |-> e, man |-> m]

PosZero == MkFloat(0, 0, 0)
QuietNaN == MkFloat(0, 255, 4194304)

IsNaNF(x) == x.exp = 255 /\ x.man # 0
IsInfF(x) == x.exp = 255 /\ x.man = 0
IsZeroF(x) == x.exp = 0 /\ x.man = 0

\* The 24-bit significand and the exponent it is scaled by (a subnormal
\* has no hidden bit and the exponent of the smallest normal).
Sig(x) == IF x.exp = 0 THEN x.man ELSE 8388608 + x.man
EffExp(x) == IF x.exp = 0 THEN 1 ELSE x.exp

\* q with the bits shifted out of it ORed into its lowest bit.
ShiftRightSticky(q, d) ==
    IF d <= 0 THEN q
    ELSE IF d >= 30 THEN (IF q = 0 THEN 0 ELSE 1)
    ELSE LET hi == q \div Pow2(d)
             lost == q % Pow2(d)
         IN  IF lost # 0 /\ hi % 2 = 0 THEN hi + 1 ELSE hi

\* Round a significand carrying three extra low bits to nearest, ties to
\* even, and pack it with sign s and exponent e.
RoundPack(s, e, sig3) ==
    LET q == sig3 \div 8
        r == sig3 % 8
        up == r > 4 \/ (r = 4 /\ q % 2 = 1)
        q1 == IF up THEN q + 1 ELSE q
        carry == q1 >= 16777216
        q2 == IF carry THEN q1 \div 2 ELSE q1
        e2 == IF carry THEN e + 1 ELSE e
    IN  IF q2 = 0 THEN MkFloat(s, 0, 0)
        ELSE IF q2 < 8388608 THEN MkFloat(s, 0, q2)
        ELSE IF e2 >= 255 THEN MkFloat(s, 255, 0)
        ELSE MkFloat(s, e2, q2 - 8388608)

\* Shift a non-zero difference left until its leading bit is in place (or
\* the exponent reaches that of the subnormals).
RECURSIVE Normalize(_, _, _)
Normalize(s, e, sig3) ==
    IF sig3 >= 67108864 \/ e <= 1 THEN RoundPack(s, e, sig3)
    ELSE Normalize(s, e - 1, sig3 * 2)

MagGeq(a, b) ==
    \/ EffExp(a) > EffExp(b)
    \/ EffExp(a) = EffExp(b) /\ Sig(a) >= Sig(b)

\* a + b for finite a, b with |a| >= |b|.
AddOrdered(a, b) ==
    LET d == EffExp(a) - EffExp(b)
        A == Sig(a) * 8
        B == ShiftRightSticky(Sig(b) * 8, d)
    IN  IF a.sign = b.sign
        THEN LET S == A + B
             IN  IF S >= 134217728
                 THEN RoundPack(a.sign, EffExp(a) + 1, ShiftRightSticky(S, 1))
                 ELSE RoundPack(a.sign, EffExp(a), S)
        ELSE LET D == A - B
             IN  IF D = 0 THEN PosZero
                 ELSE Normalize(a.sign, EffExp(a), D)

\* The single-precision sum x + y (round to nearest, ties to even).
FAdd(x, y) ==
    IF IsNaNF(x) \/ IsNaNF(y) THEN QuietNaN
    ELSE IF IsInfF(x) /\ IsInfF(y) THEN (IF x.sign = y.sign THEN x ELSE QuietNaN)
    ELSE IF IsInfF(x) THEN x
    ELSE IF IsInfF(y) THEN y
    ELSE IF IsZeroF(x) /\ IsZeroF(y)
         THEN (IF x.sign = 1 /\ y.sign = 1 THEN x ELSE PosZero)
    ELSE IF IsZeroF(y) THEN x
    ELSE IF IsZeroF(x) THEN y
    ELSE IF MagGeq(x, y) THEN AddOrdered(x, y)
    ELSE AddOrdered(y, x)

\* float energy = <long>: the conversion of a long to float (exact below
\* 2^24, rounded to nearest even above).
ToFloat(n) ==
    LET s == IF n < 0 THEN 1 ELSE 0
        a == Abs(n)
        k == BitLen(a)
    IN  IF a = 0 THEN PosZero
        ELSE IF k <= 24 THEN MkFloat(s, 126 + k, a * Pow2(24 - k) - 8388608)
        ELSE IF k <= 27 THEN RoundPack(s, 126 + k, a * Pow2(27 - k))
        ELSE RoundPack(s, 126 + k, ShiftRightSticky(a, k - 27))

\* The literal 1e-6f.
Eps == MkFloat(0, EpsExp, EpsMan)

\* ------------------------------------------------------------------------
\* Values held by a float slot, and logf
\* ------------------------------------------------------------------------

\* A slot holds either a float given by its fields or the float logf(x).
Lit(x) == [op |-> "lit", x |-> x]

\* logf(x), kept as a term over its exact argument.
Logf(x) == [op |-> "logf", x |-> x]

\* logf yields NaN for a NaN or negative argument, -inf for a zero, +inf
\* for +inf, and a finite float otherwise.
ValIsNaN(v) ==
    IF v.op = "lit" THEN IsNaNF(v.x)
    ELSE IsNaNF(v.x) \/ (v.x.sign = 1 /\ ~IsZeroF(v.x))

ValIsInf(v) ==
    IF v.op = "lit" THEN IsInfF(v.x)
    ELSE IsZeroF(v.x) \/ (IsInfF(v.x) /\ v.x.sign = 0)

ValIsFinite(v) == ~ValIsNaN(v) /\ ~ValIsInf(v)

\* ------------------------------------------------------------------------
\* The loop of extract_features
\* ------------------------------------------------------------------------

\* random(howsmall, howbig) of the Arduino core, over the generator's raw
\* output raw >= 0: howsmall when the range is empty, else
\* raw % (howbig - howsmall) + howsmall.
random(howsmall, howbig, raw) ==
    IF howsmall >= howbig THEN howsmall
    ELSE LET diff == howbig - howsmall
         IN  (raw % diff) + howsmall

\* random(0, 1000): the draw with a zero lower bound.
DrawZeroBased(raw) == random(0, RandMax, raw)

\* random(-1, 1000): the draw with the sign of the lower bound slipped.
DrawNegLow(raw) == random(-RandMin, RandMax, raw)

\* random(1, 1000)
Draw(raw) == random(RandMin, RandMax, raw)

\* float energy = <draw>; logf(energy + 1e-6f)
Feature(e) == Logf(FAdd(ToFloat(e), Eps))

\* Feature, tabulated once over every result a draw can have (the results
\* of random(1, 1000), of a stub, and of the variants of the draw above).
DrawResults == (-RandMax) .. (2 * RandMax)
FeatureOf == [e \in DrawResults |-> Feature(e)]

\* i < 9: the loop stopping one iteration early.
LoopCondShort(k) == k < NFeatures - 1

\* i <= 10: the loop running one iteration too many.
LoopCondInclusive(k) == k <= NFeatures

\* i < 10
LoopCond(k) == k < NFeatures

\* i += 2
IncrTwice(k) == k + 2

\* i++
Incr(k) == k + 1

\* int i = 1
LoopStartOne == LoopInit + 1

\* int i = 0
LoopStart == LoopInit

\* out[9 - i] = v: the store with the index reversed.
StoreReversed(buf, k, v) == [buf EXCEPT ![NFeatures - 1 - k] = v]

\* out[i] = v
Store(buf, k, v) == [buf EXCEPT ![k] = v]

\* ------------------------------------------------------------------------
\* State
\* ------------------------------------------------------------------------

\* Callers (threads, or separate executions) and random sources.
Procs == {1, 2}
Gens == {1, 2}

Slots == 0 .. MemSize - 1

VARIABLES
    out,      \* out[t][j]: slot j of the memory region caller t passes as out
    cap,      \* cap[t]: slots of that region that belong to the buffer
    pc,       \* pc[t]: "off", "idle", "loop", "drawn", "returned" or "trapped"
    i,        \* i[t]: the loop variable of t's running call
    ncalls,   \* ncalls[t]: calls t has started
    taken,    \* taken[g]: values drawn from random source g so far
    tape,     \* tape[g]: the cycle of raw outputs a seeded source g yields
    script,   \* results a stubbed random(1, 1000) returns, in order
    written,  \* written[t]: indices t's running call stored to, in order
    drawn,    \* drawn[t]: the draws of t's running call: source position, result
    stamp,    \* stamp[t][j]: number of the call of t that last stored to slot j
    pre       \* pre[t]: what t's running call found: slots behind 10, taken

vars == <<out, cap, pc, i, ncalls, taken, tape, script, written, drawn, stamp, pre>>

\* ------------------------------------------------------------------------
\* Inputs
\* ------------------------------------------------------------------------

\* Raw generator outputs a draw is taken over: the smallest one and the
\* one that random(1, 1000) maps to its largest result.
RawSamples == {0, 998}

\* Capacities of the buffers a caller passes: two slots short of what the
\* function writes, exactly that, and the whole region.
Caps == {NFeatures - 2, NFeatures, MemSize}

\* What a region holds before a call: NaNs, or what looks like features
\* an earlier run left there.
Garbage == {Lit(QuietNaN), Logf(ToFloat(500))}

Fill(v) == [j \in Slots |-> v]

\* Cycles of raw outputs of a seeded generator (one per seed).
Tapes ==
    { <<0, 998, 999, 499, 2147483647, 1000, 31>>,
      <<998, 0, 15, 16, 1997, 32, 250>>,
      <<123456, 998, 998, 0, 7, 65535, 332>> }

\* The raw output a seeded source yields at position k >= 1.
TapeAt(tp, k) == tp[((k - 1) % Len(tp)) + 1]

\* The scenario of the specification: the results a stubbed source returns.
Example == <<500, 1, 999, 250, 750, 1, 1000, 333, 667, 999>>

Rotate(sq, n) == [k \in 1 .. Len(sq) |-> sq[((k - 1 + n) % Len(sq)) + 1]]

Scripts == {Rotate(Example, n) : n \in 0 .. Len(Example) - 1}

\* ------------------------------------------------------------------------
\* Actions
\* ------------------------------------------------------------------------

Behind(buf) == [j \in NFeatures .. MemSize - 1 |-> buf[j]]

\* The caller enters extract_features(out): int i = 0.
Enter(t, g) ==
    /\ pc[t] \in {"idle", "returned"}
    /\ ncalls[t] < MaxCalls
    /\ pc' = [pc EXCEPT ![t] = "loop"]
    /\ i' = [i EXCEPT ![t] = LoopStart]
    /\ ncalls' = [ncalls EXCEPT ![t] = @ + 1]
    /\ written' = [written EXCEPT ![t] = <<>>]
    /\ drawn' = [drawn EXCEPT ![t] = <<>>]
    /\ UNCHANGED <<taken, tape, script>>

\* A call on the buffer the caller used before (or set up at the start).
Call(t, g) ==
    /\ Enter(t, g)
    /\ pre' = [pre EXCEPT ![t] = [tail |-> Behind(out[t]), taken |-> taken[g]]]
    /\ UNCHANGED <<out, cap, stamp>>

\* A call on another buffer, of any capacity and with any contents.
CallOther(t, g) ==
    \E c \in Caps, v \in Garbage :
        /\ Enter(t, g)
        /\ out' = [out EXCEPT ![t] = Fill(v)]
        /\ cap' = [cap EXCEPT ![t] = c]
        /\ stamp' = [stamp EXCEPT ![t] = [j \in Slots |-> 0]]
        /\ pre' = [pre EXCEPT ![t] = [tail |-> Behind(Fill(v)), taken |-> taken[g]]]

\* What every iteration does before its store: the loop test, and the draw
\* with result e from source g.
Iteration(t, g, e) ==
    /\ pc[t] = "loop"
    /\ LoopCond(i[t])
    /\ taken' = [taken EXCEPT ![g] = @ + 1]
    /\ drawn' = [drawn EXCEPT ![t] = Append(@, [k |-> taken[g] + 1, e |-> e])]
    /\ written' = [written EXCEPT ![t] = Append(@, i[t])]
    /\ UNCHANGED <<cap, ncalls, tape, script, pre>>

\* out[i] = logf(energy + 1e-6f); i++
StoreAndStep(t, e) ==
    /\ out' = [out EXCEPT ![t] = Store(@, i[t], FeatureOf[e])]
    /\ stamp' = [stamp EXCEPT ![t] = Store(@, i[t], ncalls[t])]
    /\ i' = [i EXCEPT ![t] = Incr(@)]
    /\ pc' = pc

\* An iteration whose store is inside the buffer.
Body(t, g, e) ==
    /\ i[t] < cap[t]
    /\ Iteration(t, g, e)
    /\ StoreAndStep(t, e)

\* An iteration whose store is past the end of the buffer (undefined
\* behaviour).  The store lands in the memory behind the buffer, ...
BodyCorrupt(t, g, e) ==
    /\ i[t] >= cap[t]
    /\ Iteration(t, g, e)
    /\ StoreAndStep(t, e)

\* ... or has no effect the program can see, ...
BodyElided(t, g, e) ==
    /\ i[t] >= cap[t]
    /\ Iteration(t, g, e)
    /\ i' = [i EXCEPT ![t] = Incr(@)]
    /\ UNCHANGED <<out, stamp, pc>>

\* ... or the execution faults and the call never returns.
BodyTrap(t, g, e) ==
    /\ i[t] >= cap[t]
    /\ Iteration(t, g, e)
    /\ pc' = [pc EXCEPT ![t] = "trapped"]
    /\ UNCHANGED <<out, stamp, i>>

\* The loop test fails and the function returns (nothing).
Return(t) ==
    /\ pc[t] = "loop"
    /\ ~LoopCond(i[t])
    /\ pc' = [pc EXCEPT ![t] = "returned"]
    /\ UNCHANGED <<out, cap, i, ncalls, taken, tape, script, written, drawn, stamp, pre>>

\* ------------------------------------------------------------------------
\* Spec: one caller, calls in sequence, an unseeded random source
\* ------------------------------------------------------------------------

\* Nothing has run yet: caller t holds a buffer of c[t] slots in a region
\* filled with v[t].
Quiet(c, v) ==
    /\ out = [t \in Procs |-> Fill(v[t])]
    /\ cap = c
    /\ i = [t \in Procs |-> LoopStart]
    /\ ncalls = [t \in Procs |-> 0]
    /\ taken = [g \in Gens |-> 0]
    /\ written = [t \in Procs |-> <<>>]
    /\ drawn = [t \in Procs |-> <<>>]
    /\ stamp = [t \in Procs |-> [j \in Slots |-> 0]]
    /\ pre = [t \in Procs |-> [tail |-> Behind(Fill(v[t])), taken |-> 0]]

Init ==
    \E c \in Caps, v \in Garbage :
        /\ Quiet([t \in Procs |-> IF t = 1 THEN c ELSE NFeatures],
                 [t \in Procs |-> IF t = 1 THEN v ELSE Lit(QuietNaN)])
        /\ pc = [t \in Procs |-> IF t = 1 THEN "idle" ELSE "off"]
        /\ tape = [g \in Gens |-> <<>>]
        /\ script = <<>>

Step == \E raw \in RawSamples : Body(1, 1, Draw(raw))
StepCorrupt == \E raw \in RawSamples : BodyCorrupt(1, 1, Draw(raw))
StepElided == \E raw \in RawSamples : BodyElided(1, 1, Draw(raw))
StepTrap == \E raw \in RawSamples : BodyTrap(1, 1, Draw(raw))

Next ==
    \/ Call(1, 1)
    \/ CallOther(1, 1)
    \/ Step
    \/ StepCorrupt
    \/ StepElided
    \/ StepTrap
    \/ Return(1)

Spec == Init /\ [][Next]_vars

\* A sequential call runs on: an enabled iteration or return is taken.
FairSpec ==
    /\ Spec
    /\ WF_vars(Step)
    /\ WF_vars(Return(1))

\* ------------------------------------------------------------------------
\* SpecStub: one caller, the random source replaced by a scripted stub
\* ------------------------------------------------------------------------

InitStub ==
    \E c \in {NFeatures, MemSize}, v \in Garbage, sc \in Scripts :
        /\ Quiet([t \in Procs |-> IF t = 1 THEN c ELSE NFeatures],
                 [t \in Procs |-> IF t = 1 THEN v ELSE Lit(QuietNaN)])
        /\ pc = [t \in Procs |-> IF t = 1 THEN "idle" ELSE "off"]
        /\ tape = [g \in Gens |-> <<>>]
        /\ script = sc

\* An iteration whose random(1, 1000) is the stub: it returns the next
\* scripted result.
StubStep == Body(1, 1, TapeAt(script, taken[1] + 1))

NextStub ==
    \/ Call(1, 1)
    \/ StubStep
    \/ Return(1)

SpecStub == InitStub /\ [][NextStub]_vars

\* ------------------------------------------------------------------------
\* SpecRepro: two executions, each with a source of its own, seeded alike
\* ------------------------------------------------------------------------

InitRepro ==
    \E tp \in Tapes, v1 \in Garbage, v2 \in Garbage :
        /\ Quiet([t \in Procs |-> NFeatures],
                 [t \in Procs |-> IF t = 1 THEN v1 ELSE v2])
        /\ pc = [t \in Procs |-> "idle"]
        /\ tape = [g \in Gens |-> tp]
        /\ script = <<>>

\* An iteration of t whose draw is the next output of seeded source g.
SeededStep(t, g) == Body(t, g, Draw(TapeAt(tape[g], taken[g] + 1)))

NextRepro ==
    \E t \in Procs :
        \/ Call(t, t)
        \/ SeededStep(t, t)
        \/ Return(t)

SpecRepro == InitRepro /\ [][NextRepro]_vars

\* ------------------------------------------------------------------------
\* SpecConc: two threads, one call each, sharing one source with atomic
\* draws, on disjoint buffers
\* ------------------------------------------------------------------------

ConcTape == <<0, 998, 999, 499, 2147483647, 1000, 31>>

\* Both threads have entered extract_features, each on its own buffer.
InitConc ==
    /\ out = [t \in Procs |-> Fill(Lit(QuietNaN))]
    /\ cap = [t \in Procs |-> NFeatures]
    /\ pc = [t \in Procs |-> "loop"]
    /\ i = [t \in Procs |-> LoopStart]
    /\ ncalls = [t \in Procs |-> 1]
    /\ taken = [g \in Gens |-> 0]
    /\ tape = [g \in Gens |-> ConcTape]
    /\ script = <<>>
    /\ written = [t \in Procs |-> <<>>]
    /\ drawn = [t \in Procs |-> <<>>]
    /\ stamp = [t \in Procs |-> [j \in Slots |-> 0]]
    /\ pre = [t \in Procs |-> [tail |-> Behind(Fill(Lit(QuietNaN))), taken |-> 0]]

\* float energy = random(1, 1000): after the loop test thread t takes the
\* next value of the shared source g.  The draw is atomic; what follows it in
\* the iteration is not part of it, so the other thread may run in between.
\* The local energy is the last entry of drawn[t].
DrawStep(t, g) ==
    /\ pc[t] = "loop"
    /\ LoopCond(i[t])
    /\ i[t] < cap[t]
    /\ taken' = [taken EXCEPT ![g] = @ + 1]
    /\ drawn' = [drawn EXCEPT ![t] =
                     Append(@, [k |-> taken[g] + 1,
                                e |-> Draw(TapeAt(tape[g], taken[g] + 1))])]
    /\ pc' = [pc EXCEPT ![t] = "drawn"]
    /\ UNCHANGED <<out, cap, i, ncalls, tape, script, written, stamp, pre>>

\* out[i] = logf(energy + 1e-6f); i++: the rest of the iteration touches
\* only the thread's own buffer and its own loop variable.
StoreStep(t) ==
    /\ pc[t] = "drawn"
    /\ out' = [out EXCEPT ![t] = Store(@, i[t], FeatureOf[drawn[t][Len(drawn[t])].e])]
    /\ stamp' = [stamp EXCEPT ![t] = Store(@, i[t], ncalls[t])]
    /\ written' = [written EXCEPT ![t] = Append(@, i[t])]
    /\ i' = [i EXCEPT ![t] = Incr(@)]
    /\ pc' = [pc EXCEPT ![t] = "loop"]
    /\ UNCHANGED <<cap, ncalls, taken, tape, script, drawn, pre>>

NextConc ==
    \E t \in Procs :
        \/ DrawStep(t, 1)
        \/ StoreStep(t)
        \/ Return(t)

SpecConc == InitConc /\ [][NextConc]_vars

\* ------------------------------------------------------------------------
\* Reading a stored value back
\* ------------------------------------------------------------------------

\* The integer part of a float x >= 0 below 2^24, and its fractional part
\* in units of 2^-23.
IntPart(x) ==
    IF x.exp < 127 THEN 0
    ELSE Sig(x) \div Pow2(150 - x.exp)

FracPart(x) ==
    IF x.exp < 127 THEN 8388608
    ELSE (Sig(x) % Pow2(150 - x.exp)) * Pow2(x.exp - 127)

\* The float x lies within 1e-5 of the real number n + u * 1e-6 (n >= 1 an
\* integer, 0 <= u <= 100), so that ln x lies within 1e-5 of
\* ln(n + u * 1e-6): |x - y| <= 1e-5 and x, y >= 1 give |ln x - ln y| <= 1e-5.
NearReal(x, n, u) ==
    /\ x.sign = 0
    /\ x.exp >= 127
    /\ x.exp <= 150
    /\ IntPart(x) = n
    /\ FracPart(x) <= 1000
    /\ Abs(FracPart(x) * 1000000 - u * 8388608) <= 10 * 8388608

\* The slot value v is the single-precision ln(e + 1e-6), e an integer.
IsLnOf(v, e) == v.op = "logf" /\ NearReal(v.x, e, 1)

\* A float that is finite and strictly greater than zero.
IsPosFinite(x) == x.sign = 0 /\ x.exp < 255 /\ ~IsZeroF(x)

Indices(sq) == {sq[k] : k \in 1 .. Len(sq)}

UpTo(n) == [k \in 1 .. n |-> k - 1]

Min(a, b) == IF a <= b THEN a ELSE b

\* ------------------------------------------------------------------------
\* Claims
\* ------------------------------------------------------------------------

\* C1: when a call on a buffer of at least 10 slots returns, it has made
\* exactly 10 stores, the stored indices are exactly 0..9, and each of the
\* slots 0..9 was last written by this very call, whatever the buffer held.
C1_AllTenWritten ==
    (pc[1] = "returned" /\ cap[1] >= NFeatures) =>
        /\ Len(written[1]) = NFeatures
        /\ Indices(written[1]) = 0 .. NFeatures - 1
        /\ \A j \in 0 .. NFeatures - 1 : stamp[1][j] = ncalls[1]

\* A returned call on the largest buffer, which held stale features.
C1_Witness ==
    /\ pc[1] = "returned"
    /\ cap[1] = MemSize
    /\ out[1][MemSize - 1] = Logf(ToFloat(500))
    /\ Len(written[1]) = NFeatures

\* C2: after a call has returned, every element 0..9 of the buffer is the
\* single-precision ln(e + 1e-6) of an integer e with 1 <= e <= 999: the
\* energy is never 0, never 1000, never outside 1..999.
C2_EnergyRange ==
    pc[1] = "returned" =>
        \A j \in 0 .. NFeatures - 1 :
            j < cap[1] =>
                LET e == IntPart(out[1][j].x)
                IN  e >= RandMin /\ e < RandMax /\ IsLnOf(out[1][j], e)

\* A returned call that drew both ends of the range: 1 and 999.
C2_Witness ==
    /\ pc[1] = "returned"
    /\ cap[1] >= NFeatures
    /\ IsLnOf(out[1][0], 1)
    /\ IsLnOf(out[1][NFeatures - 1], 999)

\* C4: at every iteration of every call the argument passed to logf is a
\* finite float strictly greater than zero, and no element a call has
\* stored is NaN or infinite.
C4_FiniteOutputs ==
    /\ \A k \in 1 .. Len(drawn[1]) :
           IsPosFinite(FeatureOf[drawn[1][k].e].x)
    /\ \A j \in Slots :
           stamp[1][j] > 0 =>
               /\ out[1][j].op = "logf"
               /\ IsPosFinite(out[1][j].x)
               /\ ValIsFinite(out[1][j])

\* A call that has stored ln of 1 + 1e-6f (the offset shows in the sum) and
\* ln of 999 + 1e-6f (the sum is 999 itself: the offset is absorbed).
C4_Witness ==
    /\ pc[1] = "loop"
    /\ i[1] = 2
    /\ out[1][0] = Logf(MkFloat(0, 127, 8))
    /\ out[1][1] = Logf(ToFloat(999))

\* C6: when the n-th call (on the same buffer as before or on another one,
\* of at least 10 slots) returns, it has made 10 draws of its own, each in
\* 1..999 and each taken from the source after the call began, and element
\* j of the buffer is the feature of the call's own j-th draw, written by
\* the n-th call: nothing is left over from earlier calls or contents.
C6_NoLeak ==
    (pc[1] = "returned" /\ cap[1] >= NFeatures) =>
        /\ Len(drawn[1]) = NFeatures
        /\ \A j \in 0 .. NFeatures - 1 :
               /\ stamp[1][j] = ncalls[1]
               /\ drawn[1][j + 1].k = pre[1].taken + j + 1
               /\ drawn[1][j + 1].e \in RandMin .. RandMax - 1
               /\ IsLnOf(out[1][j], drawn[1][j + 1].e)

\* The second call has returned, and its draws differ from what the first
\* call left in the buffer it overwrote.
C6_Witness ==
    /\ pc[1] = "returned"
    /\ ncalls[1] = 2
    /\ cap[1] >= NFeatures
    /\ pre[1].taken = NFeatures
    /\ IsLnOf(out[1][0], 999)
    /\ IsLnOf(out[1][1], 1)

\* C7 as stated: a returned call on a buffer of at least 10 slots has left
\* every slot behind the first 10 and every other piece of state the caller
\* can observe, the shared random source included, as it found them.
C7_NothingElseChanges ==
    (pc[1] = "returned" /\ cap[1] >= NFeatures) =>
        /\ Behind(out[1]) = pre[1].tail
        /\ out[2] = Fill(Lit(QuietNaN))
        /\ taken[1] = pre[1].taken

\* C7 amended: a returned call on a buffer of at least 10 slots has left
\* every slot behind the first 10 and all other memory as it found them,
\* and has advanced the shared random source by exactly 10 draws.
C7_Frame ==
    (pc[1] = "returned" /\ cap[1] >= NFeatures) =>
        /\ Behind(out[1]) = pre[1].tail
        /\ out[2] = Fill(Lit(QuietNaN))
        /\ taken[1] = pre[1].taken + NFeatures

\* A returned call on a buffer larger than 10 slots, whose slots 10 and up
\* still hold the stale features they held before.
C7_Witness ==
    /\ pc[1] = "returned"
    /\ cap[1] > NFeatures
    /\ stamp[1][0] = ncalls[1]
    /\ \A j \in NFeatures .. MemSize - 1 : out[1][j] = Logf(ToFloat(500))

\* C8: the function never looks at the capacity: a call on a buffer of
\* c < 10 slots that returns has made all 10 stores, those at c..9 past the
\* end of the buffer, and the only way a call fails to return is a fault at
\* such a store; the function itself signals nothing.
C8_UncheckedWrites ==
    /\ (pc[1] = "returned" /\ cap[1] < NFeatures) =>
           /\ written[1] = UpTo(NFeatures)
           /\ {j \in Indices(written[1]) : j >= cap[1]} = cap[1] .. NFeatures - 1
    /\ pc[1] = "trapped" =>
           /\ cap[1] < NFeatures
           /\ written[1][Len(written[1])] >= cap[1]
    /\ pc[1] \in {"idle", "loop", "returned", "trapped"}

\* A call on an 8-slot buffer has returned after storing past its end:
\* slot 9, behind the buffer, holds a value this call wrote.
C8_Witness ==
    /\ pc[1] = "returned"
    /\ cap[1] < NFeatures
    /\ stamp[1][NFeatures - 1] = ncalls[1]
    /\ out[1][NFeatures - 1].op = "logf"

\* C9 (state part): a running call has made i draws and i stores, at the
\* indices 0, 1, ..., i-1 in this order; a returned call has made exactly
\* 10 of each, and after n calls the source has been advanced 10 * n times.
C9_Counts ==
    /\ pc[1] = "loop" =>
           /\ i[1] <= NFeatures
           /\ written[1] = UpTo(i[1])
           /\ Len(drawn[1]) = i[1]
           /\ taken[1] = pre[1].taken + i[1]
    /\ pc[1] = "returned" =>
           /\ written[1] = UpTo(NFeatures)
           /\ Len(drawn[1]) = NFeatures
           /\ taken[1] = NFeatures * ncalls[1]

\* C9: every call on a buffer of at least 10 slots terminates, and between
\* its start and its return it takes exactly 10 draws and makes exactly 10
\* stores, at indices 0..9 in increasing order, each once; n completed
\* calls advance the source by 10 * n draws.
C9_BoundedCall ==
    /\ []C9_Counts
    /\ (pc[1] = "loop" /\ cap[1] >= NFeatures) ~> (pc[1] = "returned")

\* Two calls have completed and 20 draws have been taken.
C9_Witness ==
    /\ pc[1] = "returned"
    /\ ncalls[1] = 2
    /\ taken[1] = 2 * NFeatures
    /\ written[1] = UpTo(NFeatures)

\* The outputs the specification's scenario expects, as the arguments of
\* ln in units of 1e-6: ln(500.000001), ln(1.000001), ...
ExampleLn ==
    <<500000001, 1000001, 999000001, 250000001, 750000001,
      1000001, 1000000001, 333000001, 667000001, 999000001>>

\* C3: when the source yields d[0], ..., d[9] during a call, the call uses
\* them in this order, none twice and none skipped, and element j of the
\* buffer is ln(d[j] + 1e-6); the scenario's sequence 500, 1, 999, 250,
\* 750, 1, 1000, 333, 667, 999 yields ln(500.000001), ln(1.000001), ...,
\* ln(999.000001), each within 1e-5.
C3_PositionWise ==
    pc[1] = "returned" =>
        /\ \A j \in 0 .. NFeatures - 1 :
               /\ drawn[1][j + 1].k = pre[1].taken + j + 1
               /\ drawn[1][j + 1].e = TapeAt(script, pre[1].taken + j + 1)
               /\ IsLnOf(out[1][j], TapeAt(script, pre[1].taken + j + 1))
        /\ (script = Example /\ ncalls[1] = 1) =>
               \A j \in 0 .. NFeatures - 1 :
                   /\ out[1][j].op = "logf"
                   /\ NearReal(out[1][j].x, ExampleLn[j + 1] \div 1000000,
                               ExampleLn[j + 1] % 1000000)

\* The scenario has run: the stub yielded the example sequence, and the
\* seventh element is the logarithm of the float 1000, the second that of
\* 1 + 2^-20.
C3_Witness ==
    /\ pc[1] = "returned"
    /\ ncalls[1] = 1
    /\ script = Example
    /\ out[1][6] = Logf(ToFloat(1000))
    /\ out[1][1] = Logf(MkFloat(0, 127, 8))

\* C5: two executions whose sources start in the same state agree, call by
\* call and position by position, on everything their calls have written
\* and on every draw, whatever their buffers held at the start.
C5_Reproducible ==
    (ncalls[1] = ncalls[2] /\ ncalls[1] > 0) =>
        /\ \A j \in 0 .. Min(i[1], i[2]) - 1 : out[1][j] = out[2][j]
        /\ \A k \in 1 .. Min(Len(drawn[1]), Len(drawn[2])) :
               drawn[1][k] = drawn[2][k]

\* Both executions have completed two calls on buffers that held different
\* contents, and their outputs agree.
C5_Witness ==
    /\ pc[1] = "returned" /\ pc[2] = "returned"
    /\ ncalls[1] = 2 /\ ncalls[2] = 2
    /\ pre[1].tail # pre[2].tail
    /\ \A j \in 0 .. NFeatures - 1 : out[1][j] = out[2][j] /\ stamp[1][j] = 2

\* The positions of the source from which thread t has drawn.
Positions(t) == {drawn[t][k].k : k \in 1 .. Len(drawn[t])}

\* Draws of thread t that it has not stored yet (0 or 1).
Pending(t) == IF pc[t] = "drawn" THEN 1 ELSE 0

\* The draws whose stored feature reads back as ln(e + 1e-6), e in 1..999.
LnDraws == {e \in RandMin .. RandMax - 1 : IsLnOf(FeatureOf[e], e)}

\* A slot no call has stored to.
Unwritten == Lit(QuietNaN)

\* The position of thread t's latest draw (0 before its first).
LastPos(t) == IF drawn[t] = <<>> THEN 0 ELSE drawn[t][Len(drawn[t])].k

\* C10 (state part): with atomic draws, every draw taken from the shared
\* source has gone to exactly one iteration of exactly one thread, also
\* while the other thread draws between a thread's draw and its store: the
\* draws taken are as many as the two threads hold, the latest of them is
\* held by one thread only, and the slot a thread stored last holds the
\* feature of its own latest stored draw while the next slot is untouched.
\* A thread that has not returned can always take its next step, whatever
\* the other thread does.  When both calls have returned, the positions
\* 1..20 of the source are split between the two threads, 10 each, and each
\* buffer holds, at every position j of its 10, the feature of the thread's
\* own j-th draw, a value in 1..999.
C10_Draws ==
    /\ taken[1] = Len(drawn[1]) + Len(drawn[2])
    /\ taken[1] > 0 =>
           /\ LastPos(1) # LastPos(2)
           /\ taken[1] \in {LastPos(1), LastPos(2)}
    /\ \A t \in Procs :
           /\ pc[t] \in {"loop", "drawn", "returned"}
           /\ pc[t] = "loop" => i[t] <= NFeatures
           /\ pc[t] = "drawn" => i[t] < NFeatures
           /\ pc[t] = "returned" => i[t] = NFeatures
           /\ Len(drawn[t]) = i[t] + Pending(t)
           /\ LastPos(t) <= taken[1]
           /\ Len(drawn[t]) > 1 => drawn[t][Len(drawn[t]) - 1].k < LastPos(t)
           /\ i[t] > 0 => out[t][i[t] - 1] = FeatureOf[drawn[t][i[t]].e]
           /\ i[t] < NFeatures => out[t][i[t]] = Unwritten
           /\ pc[t] # "returned" =>
                  ENABLED (DrawStep(t, 1) \/ StoreStep(t) \/ Return(t))
    /\ (pc[1] = "returned" /\ pc[2] = "returned") =>
           /\ Positions(1) \cap Positions(2) = {}
           /\ Positions(1) \cup Positions(2) = 1 .. 2 * NFeatures
           /\ \A t \in Procs :
                  /\ Cardinality(Positions(t)) = NFeatures
                  /\ \A j \in 0 .. NFeatures - 1 :
                         /\ drawn[t][j + 1].e = Draw(TapeAt(tape[1], drawn[t][j + 1].k))
                         /\ drawn[t][j + 1].e \in LnDraws
                         /\ out[t][j] = FeatureOf[drawn[t][j + 1].e]
                  /\ \A j \in NFeatures .. MemSize - 1 : out[t][j] = Unwritten

\* How far thread t has got: its draws, its stores, and its return.
Progress(t) == i[t] + Len(drawn[t]) + (IF pc[t] = "returned" THEN 1 ELSE 0)

\* C10 (step part): every step is one thread's: it moves that thread one
\* step (a draw, a store or its return) forward and leaves the other
\* thread's position and buffer alone.
C10_Advance ==
    \E t \in Procs :
        /\ Progress(t)' = Progress(t) + 1
        /\ Progress(t)' <= 2 * NFeatures + 1
        /\ \A u \in Procs \ {t} :
               /\ Progress(u)' = Progress(u)
               /\ pc'[u] = pc[u]
               /\ out'[u] = out[u]

\* C10: under every interleaving of the draws and stores of two concurrent
\* calls on disjoint buffers, with atomic draws, both calls terminate
\* (neither thread is ever blocked, and every step advances one of them
\* towards its return, which is 21 steps away at most), each buffer ends
\* with 10 features of draws in 1..999, and every draw is used by exactly
\* one of the calls.
C10_Concurrent ==
    /\ []C10_Draws
    /\ [][C10_Advance]_vars

\* The calls overlapped between a draw and its store: thread 1 took the
\* first draw and has not stored it yet, and in the meantime thread 2 took
\* the draws 2..11, filled its buffer and returned.
C10_Witness ==
    /\ pc[1] = "drawn" /\ i[1] = LoopStart
    /\ drawn[1][1].k = 1
    /\ out[1][0] = Lit(QuietNaN)
    /\ pc[2] = "returned"
    /\ Positions(2) = 2 .. NFeatures + 1
    /\ \A j \in 0 .. NFeatures - 1 : IsLnOf(out[2][j], drawn[2][j + 1].e)

====
